---- MODULE Spec2Model ----
(***************************************************************************)
(* A model of morphosamplers/sampler.py: the grid generators, the pose     *)
(* transformer (generate_sampling_coordinates), the volume interpolator    *)
(* (sample_volume_at_coordinates) and the three samplers built on them.    *)
(*                                                                         *)
(* Arrays.  A numpy array is a record [ok, shape, data]: data is the       *)
(* array's elements in row-major (C) order, shape its numpy shape, so that *)
(* reshape, squeeze, stack, swapaxes and broadcasting are modelled by what *)
(* they do to the flat element order.  ok = FALSE is a raised exception.   *)
(*                                                                         *)
(* Numbers.  Coordinates are exact fixed-point numbers counted in halves:  *)
(* the integer c stands for the coordinate c/2 (a centred grid of even     *)
(* length has half-integer coordinates).  Volume values are integers.      *)
(* Floating-point rounding is not modelled.                                *)
(***************************************************************************)
EXTENDS Integers, Sequences, FiniteSets, TLC

VARIABLES
    volume,         \* the caller's volume, shape (VolDim, VolDim, VolDim)
    sampling_grid,  \* the caller's sampling grid, shape (*grid_shape, 3)
    positions,      \* the caller's positions, shape (P, 3)
    orientations,   \* the caller's Rotation object: a sequence of 3x3 matrices
    coordinates,    \* the caller's coordinate array, shape (B, *grid_shape, 3)
    call            \* the last call: its operation, arguments and outcome

vars == <<volume, sampling_grid, positions, orientations, coordinates, call>>

\* ---------------------------------------------------------------- bounds

\* Largest number of points per axis asked of the grid generators.
MaxLen == 3
\* Largest spacing asked of the grid generators.
MaxSpacing == 2
\* Largest number of points per axis of a grid that is posed and sampled.
MaxSide == 2
\* Largest number of positions, and of orientations, the caller holds.
MaxBatch == 4
\* Side of the caller's cubic volume.
VolDim == 4

\* ------------------------------------------------------- numpy arrays

RECURSIVE Prod(_)
\* The number of elements of an array of this shape.
Prod(s) == IF s = <<>> THEN 1 ELSE Head(s) * Prod(Tail(s))

Array(shape, data) == [ok |-> TRUE, shape |-> shape, data |-> data]

\* A raised exception in place of an array.
Failed == [ok |-> FALSE, shape |-> <<>>, data |-> <<>>]

Size(a) == Len(a.data)

\* The row-major strides of an array of shape s, in elements: one step along
\* axis i moves over the product of the lengths of the axes after i.
Strides(s) == [i \in 1..Len(s) |-> Prod(SubSeq(s, i + 1, Len(s)))]

RECURSIVE Dot(_, _, _)
\* idx[i] * st[i] + ... + idx[Len(idx)] * st[Len(idx)].
Dot(idx, st, i) ==
    IF i > Len(idx) THEN 0 ELSE idx[i] * st[i] + Dot(idx, st, i + 1)

\* Row-major flat offset (from 0) of the index idx (from 0) in an array of shape s.
Ravel(idx, s) == Dot(idx, Strides(s), 1)

\* The index (from 0) of the flat offset f in an array of shape s.
Unravel(f, s) ==
    LET st == Strides(s) IN [i \in 1..Len(s) |-> (f \div st[i]) % s[i]]

\* The same, the strides st of the shape s given.
UnravelBy(f, s, st) == [i \in 1..Len(s) |-> (f \div st[i]) % s[i]]

\* a[idx], idx counted from 0.
Elem(a, idx) == a.data[Ravel(idx, a.shape) + 1]

\* ndarray.reshape: the same elements in the same flat order under a new
\* shape; one entry of the new shape may be -1 and is inferred from the size.
Reshape(a, newshape) ==
    LET unknown == {i \in 1..Len(newshape) : newshape[i] = -1}
        known == Prod([i \in 1..Len(newshape) |->
                          IF newshape[i] = -1 THEN 1 ELSE newshape[i]])
    IN  IF ~a.ok THEN Failed
        ELSE IF unknown = {} THEN
            IF known = Size(a) THEN Array(newshape, a.data) ELSE Failed
        ELSE IF Cardinality(unknown) > 1 \/ known = 0 \/ Size(a) % known # 0
            THEN Failed
        ELSE Array([i \in 1..Len(newshape) |->
                       IF newshape[i] = -1 THEN Size(a) \div known
                       ELSE newshape[i]],
                   a.data)

\* ndarray.squeeze(): every axis of length 1 is removed.
Squeeze(a) ==
    IF ~a.ok THEN Failed
    ELSE Array(SelectSeq(a.shape, LAMBDA d : d # 1), a.data)

\* The sequence s with its first and last entries exchanged.
SwapEnds(s) ==
    [i \in 1..Len(s) |->
        IF i = 1 THEN s[Len(s)] ELSE IF i = Len(s) THEN s[1] ELSE s[i]]

\* SwapAxes left out: the array as it is.
SwapAxesOmitted(a) == a

\* np.swapaxes(a, -1, 0): out[i_last, ..., i_0] = a[i_0, ..., i_last].
SwapAxes(a) ==
    IF ~a.ok THEN Failed
    ELSE LET shape == SwapEnds(a.shape)
             st == Strides(shape)
             from == Strides(a.shape)
         IN  Array(shape,
                   [f \in 1..Size(a) |->
                       a.data[Dot(SwapEnds(UnravelBy(f - 1, shape, st)), from, 1) + 1]])

\* ------------------------------------------------------ grid generator

\* A Python argument that is a tuple, and one that is a bare number.
Tuple(items) == [iterable |-> TRUE, items |-> items]
Scalar(v) == [iterable |-> FALSE, items |-> <<v>>]

\* (*x, 1): x unpacked into a new tuple ending in 1; unpacking a bare number
\* raises TypeError.
StarThenOne(x) ==
    IF x.iterable THEN [ok |-> TRUE, items |-> x.items \o <<1>>]
    ELSE [ok |-> FALSE, items |-> <<>>]

\* np.linspace(-0.5, 0.5, num) as exact fractions n/d: element i (from 0) is
\* start + i * step, with step = (stop - start) / (num - 1); no element for
\* num = 0; a negative num raises ValueError.
Linspace(num) ==
    IF num < 0 THEN [ok |-> FALSE, vals |-> <<>>]
    ELSE [ok |-> TRUE,
          vals |-> [i \in 1..num |->
                       [n |-> -(num - 1) + 2 * (i - 1), d |-> 2 * (num - 1)]]]

\* The fraction q times the integer k, counted in halves.
TimesInHalves(q, k) == (2 * q.n * k) \div q.d

\* AxisCoords with the linspace scaled by ln instead of ln - 1.
AxisCoordsScaledByLen(ln, spacing) ==
    IF ln # 1 THEN
        LET l == Linspace(ln)
        IN  [ok |-> l.ok,
             vals |-> [i \in 1..Len(l.vals) |->
                          TimesInHalves(l.vals[i], ln * spacing)]]
    ELSE [ok |-> TRUE, vals |-> <<0>>]

\* One pass of the loop over dim: the coordinates along one axis, in halves.
\* ln /= 1: np.linspace(-0.5, 0.5, ln) * (ln - 1) * spacing; ln = 1: the
\* number 0, which np.meshgrid takes as an axis of one point.
AxisCoords(ln, spacing) ==
    IF ln # 1 THEN
        LET l == Linspace(ln)
        IN  [ok |-> l.ok,
             vals |-> [i \in 1..Len(l.vals) |->
                          TimesInHalves(l.vals[i], (ln - 1) * spacing)]]
    ELSE [ok |-> TRUE, vals |-> <<0>>]

\* np.stack(np.meshgrid(*coords, indexing="ij"), axis=3):
\* grid[i0, i1, i2, k] = coords[k][i_k].
MeshgridStack(coords) ==
    LET shape == <<Len(coords[1]), Len(coords[2]), Len(coords[3]), 3>>
        st == Strides(shape)
    IN  Array(shape,
              [f \in 1..Prod(shape) |->
                  LET k == (f - 1) % 3
                  IN  coords[k + 1][(((f - 1) \div st[k + 1]) % shape[k + 1]) + 1]])

\* generate_3D_grid(grid_shape, grid_spacing, squeeze).
Generate3DGrid(grid_shape, grid_spacing, squeeze) ==
    LET coords == [dim \in 1..3 |-> AxisCoords(grid_shape[dim], grid_spacing[dim])]
    IN  IF \E dim \in 1..3 : ~coords[dim].ok THEN Failed
        ELSE LET grid == MeshgridStack([dim \in 1..3 |-> coords[dim].vals])
             IN  IF squeeze THEN Squeeze(grid) ELSE grid

\* generate_2D_grid(grid_shape, grid_spacing): squeeze is left at its default.
Generate2DGrid(grid_shape, grid_spacing) ==
    LET shape == StarThenOne(grid_shape)
        spacing == StarThenOne(grid_spacing)
    IN  IF ~shape.ok \/ ~spacing.ok THEN Failed
        ELSE Generate3DGrid(shape.items, spacing.items, TRUE)

\* generate_1D_grid(grid_shape, grid_spacing): squeeze is left at its default.
Generate1DGrid(grid_shape, grid_spacing) ==
    Generate3DGrid(<<1, 1, grid_shape>>, <<1, 1, grid_spacing>>, TRUE)

\* ----------------------------------------------------- pose transformer

\* orientation.apply(vectors) of scipy's Rotation, for vectors of shape
\* (N, 3): row n of the result is the rotation matrix times row n.
Apply(orientation, vectors) ==
    IF ~vectors.ok THEN Failed
    ELSE Array(vectors.shape,
               [f \in 1..Size(vectors) |->
                   LET n == (f - 1) \div 3
                       c == (f - 1) % 3
                   IN  orientation[c + 1][1] * vectors.data[3 * n + 1]
                     + orientation[c + 1][2] * vectors.data[3 * n + 2]
                     + orientation[c + 1][3] * vectors.data[3 * n + 3]])

\* StackAxis1 with axis=0: shape (B, N, 3), stacked[b, n] = rotated[b][n].
StackAxis0(rotated) ==
    IF rotated = <<>> \/ \E b \in 1..Len(rotated) : ~rotated[b].ok THEN Failed
    ELSE LET B == Len(rotated)
             N == rotated[1].shape[1]
         IN  Array(<<B, N, 3>>,
                   [f \in 1..(B * N * 3) |->
                       LET b == (f - 1) \div (3 * N)
                           n == ((f - 1) \div 3) % N
                           c == (f - 1) % 3
                       IN  rotated[b + 1].data[3 * n + c + 1]])

\* np.stack(rotated, axis=1) of B arrays of shape (N, 3): shape (N, B, 3),
\* stacked[n, b] = rotated[b][n].  An empty list raises ValueError.
StackAxis1(rotated) ==
    IF rotated = <<>> \/ \E b \in 1..Len(rotated) : ~rotated[b].ok THEN Failed
    ELSE LET B == Len(rotated)
             N == rotated[1].shape[1]
         IN  Array(<<N, B, 3>>,
                   [f \in 1..(N * B * 3) |->
                       LET n == (f - 1) \div (3 * B)
                           b == ((f - 1) \div 3) % B
                           c == (f - 1) % 3
                       IN  rotated[b + 1].data[3 * n + c + 1]])

\* stacked + positions under numpy's broadcasting, stacked of shape (N, B, 3)
\* and positions of shape (P, 3): the axes B and P must be equal or one of
\* them 1 (it is then repeated); otherwise ValueError.
AddBroadcast(stacked, pos) ==
    IF ~stacked.ok \/ ~pos.ok THEN Failed
    ELSE LET B == stacked.shape[2]
             P == pos.shape[1]
         IN  IF B # P /\ B # 1 /\ P # 1 THEN Failed
             ELSE LET N == stacked.shape[1]
                      J == IF B = 1 THEN P ELSE B
                  IN  Array(<<N, J, 3>>,
                        [f \in 1..(N * J * 3) |->
                            LET n == (f - 1) \div (3 * J)
                                j == ((f - 1) \div 3) % J
                                c == (f - 1) % 3
                            IN  stacked.data[3 * (n * B + (IF B = 1 THEN 0 ELSE j)) + c + 1]
                              + pos.data[3 * (IF P = 1 THEN 0 ELSE j) + c + 1]])

\* generate_sampling_coordinates(sampling_grid, positions, orientations):
\* ret is the returned array (or the exception), rotations the number of
\* orientation.apply calls made before the function returned or raised.
GenerateSamplingCoordinates(grid, pos, orients) ==
    LET grid_shape == grid.shape
        grid_coords == Reshape(grid, <<-1, 3>>)
        rotated == [b \in 1..Len(orients) |-> Apply(orients[b], grid_coords)]
        rotated_shifted == AddBroadcast(StackAxis1(rotated), pos)
    IN  [ret |-> Reshape(rotated_shifted, <<-1>> \o grid_shape),
         rotations |-> IF grid_coords.ok THEN Len(orients) ELSE 0]

\* ArraysAfterCoordinates with the shift done in place on grid_coords
\* (grid_coords += positions[0]), which writes through to sampling_grid.
ArraysAfterCoordinatesInPlace(grid, pos) ==
    [sampling_grid |->
         IF ~grid.ok THEN grid
         ELSE Array(grid.shape,
                    [f \in 1..Size(grid) |-> grid.data[f] + pos.data[((f - 1) % 3) + 1]]),
     positions |-> pos]

\* The caller's arrays after generate_sampling_coordinates: grid_coords is a
\* view of sampling_grid, but no statement stores into it, into
\* sampling_grid or into positions (apply, stack and + allocate).
ArraysAfterCoordinates(grid, pos) ==
    [sampling_grid |-> grid, positions |-> pos]

\* --------------------------------------------------- volume interpolator

\* a.T of an array of shape (M, 3): shape (3, M), out[c, k] = a[k, c].
Transpose(a) ==
    IF ~a.ok THEN Failed
    ELSE LET M == a.shape[1]
         IN  Array(<<3, M>>,
                   [f \in 1..Size(a) |->
                       a.data[3 * ((f - 1) % M) + ((f - 1) \div M) + 1]])

\* scipy's map_coordinates(input, coords, order=0) with its default
\* mode="constant", cval=0: coords has shape (3, M), column k is one point;
\* a point with a coordinate outside [0, len - 1] gives cval, any other the
\* voxel at floor(coordinate + 0.5) on each axis.  (At voxel centres every
\* order gives this value.)  The input must have as many axes as coords has
\* rows, otherwise RuntimeError.
MapCoordinates(input, coords, order) ==
    IF ~input.ok \/ ~coords.ok \/ Len(input.shape) # coords.shape[1] THEN Failed
    ELSE LET M == coords.shape[2]
             st == Strides(input.shape)
         IN  Array(<<M>>,
               [k \in 1..M |->
                   LET cc == [axis \in 1..3 |-> coords.data[(axis - 1) * M + k]]
                   IN  IF \E axis \in 1..3 :
                              cc[axis] < 0 \/ cc[axis] > 2 * (input.shape[axis] - 1)
                       THEN 0
                       ELSE input.data[Dot([axis \in 1..3 |-> (cc[axis] + 1) \div 2],
                                           st, 1) + 1]])

\* sample_volume_at_coordinates(volume, coordinates, interpolation_order).
\* Unpacking a shape of fewer than two entries raises ValueError.
SampleVolumeAtCoordinates(vol, coords, interpolation_order) ==
    IF ~coords.ok \/ Len(coords.shape) < 2 THEN Failed
    ELSE LET batch == coords.shape[1]
             grid_shape == SubSeq(coords.shape, 2, Len(coords.shape) - 1)
             sampled_volume ==
                 MapCoordinates(vol, Transpose(Reshape(coords, <<-1, 3>>)),
                                interpolation_order)
         IN  SwapAxes(Reshape(sampled_volume, grid_shape \o <<batch>>))

\* The caller's arrays after sample_volume_at_coordinates: the reshape and
\* the transpose are views that are only read; map_coordinates allocates.
ArraysAfterSampling(vol, coords) ==
    [volume |-> vol, coordinates |-> coords]

\* --------------------------------------------------------------- samplers

\* sample_volume_along_spline(volume, spline, sampling_shape,
\* sampling_spacing, interpolation_order) for a Spline3D: spline stands for
\* what the path object returns for the step sampling_spacing.
SampleVolumeAlongSpline(vol, spline, sampling_shape, sampling_spacing, interpolation_order) ==
    LET grid == Generate2DGrid(Tuple(sampling_shape), sampling_spacing)
        sampling_coords ==
            GenerateSamplingCoordinates(grid, spline.positions,
                                        spline.orientations).ret
    IN  IF ~grid.ok THEN Failed
        ELSE SampleVolumeAtCoordinates(vol, sampling_coords, interpolation_order)

\* sample_subvolumes(volume, positions, orientations, grid_shape,
\* grid_spacing, interpolation_order).
SampleSubvolumes(vol, pos, orients, grid_shape, grid_spacing, interpolation_order) ==
    LET grid == Generate3DGrid(grid_shape, grid_spacing, FALSE)
        sampling_coords == GenerateSamplingCoordinates(grid, pos, orients).ret
    IN  IF ~grid.ok THEN Failed
        ELSE SampleVolumeAtCoordinates(vol, sampling_coords, interpolation_order)

\* sample_volume_around_surface(volume, surface, sampling_thickness,
\* sampling_spacing, interpolation_order) for a SplineSurfaceGrid: surface
\* stands for its grid_shape and what sample_surface() and
\* sample_surface_orientations() return.
SampleVolumeAroundSurface(vol, surface, sampling_thickness, sampling_spacing, interpolation_order) ==
    LET grid == Generate1DGrid(sampling_thickness, sampling_spacing)
        sampling_coords ==
            GenerateSamplingCoordinates(grid, surface.positions,
                                        surface.orientations).ret
        sampled == SampleVolumeAtCoordinates(vol, sampling_coords,
                                             interpolation_order)
    IN  IF ~grid.ok THEN Failed
        ELSE Reshape(sampled, surface.grid_shape \o <<sampling_thickness>>)

\* ----------------------------------------------------------------- inputs

\* Four rotations by 90 degrees that no two points of a grid confuse: the
\* identity, and a quarter turn about z, about x and about y.
RotationAt(i) ==
    CASE i = 0 -> <<<<1, 0, 0>>, <<0, 1, 0>>, <<0, 0, 1>>>>
      [] i = 1 -> <<<<0, -1, 0>>, <<1, 0, 0>>, <<0, 0, 1>>>>
      [] i = 2 -> <<<<1, 0, 0>>, <<0, 0, -1>>, <<0, 1, 0>>>>
      [] OTHER -> <<<<0, 0, 1>>, <<0, 1, 0>>, <<-1, 0, 0>>>>

\* Rotation objects of 1..MaxBatch rotations, neighbours always different.
OrientationLists ==
    {[i \in 1..B |-> RotationAt((start + i - 1) % 4)] :
        B \in 1..MaxBatch, start \in 0..3}

\* Position number k (from 0), in voxels: distinct points near the centre
\* of the volume.
PositionAt(k) == <<1 + (k % 2), 1 + ((k \div 2) % 2), 1 + ((k \div 4) % 2)>>

\* Position arrays of shape (P, 3), P in 1..MaxBatch, in halves.
PositionArrays ==
    {Array(<<P, 3>>,
           [f \in 1..(3 * P) |-> 2 * PositionAt((f - 1) \div 3)[((f - 1) % 3) + 1]]) :
        P \in 1..MaxBatch}

\* A volume whose voxels all differ and differ from the fill value 0.
RampVolume ==
    Array(<<VolDim, VolDim, VolDim>>, [f \in 1..(VolDim * VolDim * VolDim) |-> f])

\* The arguments asked of the grid generators, valid and invalid.
Lengths == -1..MaxLen
Spacings == -1..MaxSpacing
AllShapes3 == Lengths \X Lengths \X Lengths
AllSpacings3 == Spacings \X Spacings \X Spacings
AllShapes2 == Lengths \X Lengths
AllSpacings2 == Spacings \X Spacings

\* The arguments of the grids that are posed and sampled.
Sides == 1..MaxSide
PosedShapes3 == Sides \X Sides \X Sides
PosedSpacings3 == {<<1, 1, 1>>, <<1, 2, 1>>}
PosedShapes2 == Sides \X Sides
InterpolationOrders == {0}

\* The sampling grids a caller holds: what generate_2D_grid returns for
\* 1..MaxSide rows of MaxSide points.
CallerGrids ==
    {Generate2DGrid(Tuple(<<m, MaxSide>>), Tuple(<<1, 1>>)) : m \in Sides}

\* The coordinate array a caller holds: its grid placed at its positions,
\* orientation number i being RotationAt(i).
CallerCoordinates(grid, pos) ==
    GenerateSamplingCoordinates(
        grid, pos, [i \in 1..pos.shape[1] |-> RotationAt((i - 1) % 4)]).ret

NoCall == [op |-> "none", args |-> <<>>, ret |-> Failed, rotations |-> 0]

Init ==
    /\ volume = RampVolume
    /\ sampling_grid \in CallerGrids
    /\ positions \in PositionArrays
    /\ orientations \in OrientationLists
    /\ coordinates = CallerCoordinates(sampling_grid, positions)
    /\ call = NoCall

\* The caller of the grid generators alone holds one pose.
InitGrid ==
    /\ volume = RampVolume
    /\ sampling_grid = Generate2DGrid(Tuple(<<MaxSide, MaxSide>>), Tuple(<<1, 1>>))
    /\ positions = Array(<<1, 3>>, [f \in 1..3 |-> 2 * PositionAt(0)[f]])
    /\ orientations = <<RotationAt(0)>>
    /\ coordinates = CallerCoordinates(sampling_grid, positions)
    /\ call = NoCall

\* ---------------------------------------------------------------- actions

arrays == <<volume, sampling_grid, positions, orientations, coordinates>>

\* The caller is between two calls: it holds its arrays and no result.
Ready == call.op = "none"

\* The caller is done with the result of its last call and is ready for
\* the next one.
Return ==
    /\ ~Ready
    /\ call' = NoCall
    /\ UNCHANGED arrays

\* A call of generate_3D_grid.
Generate3DGridCall(shapes, spacings) ==
    /\ Ready
    /\ \E grid_shape \in shapes, grid_spacing \in spacings, squeeze \in BOOLEAN :
           /\ call' = [op |-> "generate_3D_grid",
                       args |-> [grid_shape |-> grid_shape,
                                 grid_spacing |-> grid_spacing,
                                 squeeze |-> squeeze],
                       ret |-> Generate3DGrid(grid_shape, grid_spacing, squeeze),
                       rotations |-> 0]
           /\ UNCHANGED arrays

\* A call of generate_2D_grid.
Generate2DGridCall(shapes, spacings) ==
    /\ Ready
    /\ \E grid_shape \in shapes, grid_spacing \in spacings :
           /\ call' = [op |-> "generate_2D_grid",
                       args |-> [grid_shape |-> grid_shape,
                                 grid_spacing |-> grid_spacing],
                       ret |-> Generate2DGrid(Tuple(grid_shape), Tuple(grid_spacing)),
                       rotations |-> 0]
           /\ UNCHANGED arrays

\* A call of generate_1D_grid.
Generate1DGridCall(shapes, spacings) ==
    /\ Ready
    /\ \E grid_shape \in shapes, grid_spacing \in spacings :
           /\ call' = [op |-> "generate_1D_grid",
                       args |-> [grid_shape |-> grid_shape,
                                 grid_spacing |-> grid_spacing],
                       ret |-> Generate1DGrid(grid_shape, grid_spacing),
                       rotations |-> 0]
           /\ UNCHANGED arrays

\* A call of generate_sampling_coordinates on the caller's grid and poses.
GenerateSamplingCoordinatesCall ==
    /\ Ready
    /\ LET r == GenerateSamplingCoordinates(sampling_grid, positions, orientations)
           after == ArraysAfterCoordinates(sampling_grid, positions)
       IN  /\ call' = [op |-> "generate_sampling_coordinates",
                       args |-> <<>>,
                       ret |-> r.ret,
                       rotations |-> r.rotations]
           /\ sampling_grid' = after.sampling_grid
           /\ positions' = after.positions
           /\ UNCHANGED <<volume, orientations, coordinates>>

\* A call of sample_volume_at_coordinates on the caller's coordinate array.
SampleVolumeAtCoordinatesCall ==
    /\ Ready
    /\ \E interpolation_order \in InterpolationOrders :
           LET after == ArraysAfterSampling(volume, coordinates)
           IN  /\ call' = [op |-> "sample_volume_at_coordinates",
                           args |-> [interpolation_order |-> interpolation_order],
                           ret |-> SampleVolumeAtCoordinates(volume, coordinates,
                                                             interpolation_order),
                           rotations |-> 0]
               /\ volume' = after.volume
               /\ coordinates' = after.coordinates
               /\ UNCHANGED <<sampling_grid, positions, orientations>>

\* A call of sample_subvolumes on the caller's volume and poses.
SampleSubvolumesCall ==
    /\ Ready
    /\ \E grid_shape \in PosedShapes3, grid_spacing \in PosedSpacings3,
          interpolation_order \in InterpolationOrders :
           LET grid == Generate3DGrid(grid_shape, grid_spacing, FALSE)
               coords == GenerateSamplingCoordinates(grid, positions, orientations).ret
           IN  /\ call' = [op |-> "sample_subvolumes",
                           args |-> [grid_shape |-> grid_shape,
                                     grid_spacing |-> grid_spacing,
                                     interpolation_order |-> interpolation_order],
                           ret |-> SampleSubvolumes(volume, positions, orientations,
                                                    grid_shape, grid_spacing,
                                                    interpolation_order),
                           rotations |-> 0]
               /\ positions' = ArraysAfterCoordinates(grid, positions).positions
               /\ volume' = ArraysAfterSampling(volume, coords).volume
               /\ UNCHANGED <<sampling_grid, orientations, coordinates>>

\* A call of sample_volume_along_spline with a scalar sampling_spacing (the
\* declared float) and a path object that gives the caller's positions and
\* as many orientations.  The call raises in generate_2D_grid, before the
\* poses or the volume are passed on.
SampleVolumeAlongSplineCall ==
    /\ Ready
    /\ \E sampling_shape \in PosedShapes2, sampling_spacing \in 1..MaxSpacing,
          interpolation_order \in InterpolationOrders :
           /\ Len(orientations) = positions.shape[1]
           /\ call' = [op |-> "sample_volume_along_spline",
                       args |-> [sampling_shape |-> sampling_shape,
                                 sampling_spacing |-> sampling_spacing,
                                 interpolation_order |-> interpolation_order],
                       ret |-> SampleVolumeAlongSpline(
                                   volume,
                                   [positions |-> positions,
                                    orientations |-> orientations],
                                   sampling_shape, Scalar(sampling_spacing),
                                   interpolation_order),
                       rotations |-> 0]
           /\ UNCHANGED arrays

\* A call of sample_volume_around_surface with a surface object of grid
\* shape (r, c) that gives the caller's r * c positions and as many
\* orientations.
SampleVolumeAroundSurfaceCall ==
    /\ Ready
    /\ \E r \in 1..MaxBatch, c \in 1..MaxBatch,
          sampling_thickness \in Sides, sampling_spacing \in 1..MaxSpacing,
          interpolation_order \in InterpolationOrders :
           LET grid == Generate1DGrid(sampling_thickness, sampling_spacing)
               coords == GenerateSamplingCoordinates(grid, positions, orientations).ret
           IN  /\ r * c = positions.shape[1]
               /\ Len(orientations) = positions.shape[1]
               /\ call' = [op |-> "sample_volume_around_surface",
                           args |-> [grid_shape |-> <<r, c>>,
                                     sampling_thickness |-> sampling_thickness,
                                     sampling_spacing |-> sampling_spacing,
                                     interpolation_order |-> interpolation_order],
                           ret |-> SampleVolumeAroundSurface(
                                       volume,
                                       [grid_shape |-> <<r, c>>,
                                        positions |-> positions,
                                        orientations |-> orientations],
                                       sampling_thickness, sampling_spacing,
                                       interpolation_order),
                           rotations |-> 0]
               /\ positions' = ArraysAfterCoordinates(grid, positions).positions
               /\ volume' = ArraysAfterSampling(volume, coords).volume
               /\ UNCHANGED <<sampling_grid, orientations, coordinates>>

\* The pose transformer, the interpolator and the samplers, with the grid
\* generators on the arguments of the grids that are posed.
Next ==
    \/ Generate3DGridCall(PosedShapes3, {<<1, 1, 1>>})
    \/ Generate2DGridCall(PosedShapes2, {<<1, 1>>})
    \/ Generate1DGridCall(Sides, {1})
    \/ GenerateSamplingCoordinatesCall
    \/ SampleVolumeAtCoordinatesCall
    \/ SampleSubvolumesCall
    \/ SampleVolumeAlongSplineCall
    \/ SampleVolumeAroundSurfaceCall
    \/ Return

Spec == Init /\ [][Next]_vars

\* The grid generators on every argument, valid or not.
NextGrid ==
    \/ Generate3DGridCall(AllShapes3, AllSpacings3)
    \/ Generate2DGridCall(AllShapes2, AllSpacings2)
    \/ Generate1DGridCall(Lengths, Spacings)
    \/ Return

SpecGrid == InitGrid /\ [][NextGrid]_vars

\* ------------------------------------------------------------ properties

\* Point number n (from 0), in flat row-major order, of an array whose last
\* axis holds the 3 components.
Point(a, n) == <<a.data[3 * n + 1], a.data[3 * n + 2], a.data[3 * n + 3]>>

\* The orientation applied to the vector v, then translated by p.
Placed(orientation, v, p) ==
    [c \in 1..3 |-> orientation[c][1] * v[1] + orientation[c][2] * v[2]
                    + orientation[c][3] * v[3] + p[c]]

\* The volume interpolated at one point.
ValueAt(vol, pt) == MapCoordinates(vol, Array(<<3, 1>>, pt), 0).data[1]

\* Coordinate number i (from 0) of a centred axis of ln points spaced by
\* spacing, in halves: (i - (ln - 1) / 2) * spacing.
Centred(i, ln, spacing) == (2 * i - (ln - 1)) * spacing

Positive(t) == \A i \in 1..Len(t) : t[i] > 0

\* C1: for matching numbers of positions and orientations,
\* generate_sampling_coordinates returns shape (B, *grid_shape, 3) and
\* out[i, g] is orientations[i] applied to grid[g], translated by
\* positions[i].
C1_BatchOrder ==
    (call.op = "generate_sampling_coordinates"
        /\ Len(orientations) = positions.shape[1]) =>
        LET B == positions.shape[1]
            N == Size(sampling_grid) \div 3
        IN  /\ call.ret.ok
            /\ call.ret.shape = <<B>> \o sampling_grid.shape
            /\ \A i \in 0..(B - 1), g \in 0..(N - 1) :
                   Point(call.ret, i * N + g)
                       = Placed(orientations[i + 1], Point(sampling_grid, g),
                                Point(positions, i))

\* C2: for coordinates of shape (B, *G, 3), sample_volume_at_coordinates
\* returns shape (*G, B) and its entry [g, b] is the volume interpolated at
\* coordinates[b, g].
C2_BatchLast ==
    call.op = "sample_volume_at_coordinates" =>
        LET B == coordinates.shape[1]
            G == SubSeq(coordinates.shape, 2, Len(coordinates.shape) - 1)
            N == Prod(G)
        IN  /\ call.ret.ok
            /\ call.ret.shape = G \o <<B>>
            /\ \A g \in 0..(N - 1), b \in 0..(B - 1) :
                   call.ret.data[g * B + b + 1]
                       = ValueAt(volume, Point(coordinates, b * N + g))

\* C3: with a number of positions that differs from the number of
\* orientations, generate_sampling_coordinates raises, and raises before
\* any orientation is applied.
C3_MismatchFailsFirst ==
    (call.op = "generate_sampling_coordinates"
        /\ Len(orientations) # positions.shape[1]) =>
        (~call.ret.ok /\ call.rotations = 0)

\* C4: the three grid generators raise whenever an entry of grid_shape or of
\* grid_spacing is not positive.
C4_InvalidGridFails ==
    /\ (call.op \in {"generate_3D_grid", "generate_2D_grid"}
           /\ ~(Positive(call.args.grid_shape) /\ Positive(call.args.grid_spacing)))
           => ~call.ret.ok
    /\ (call.op = "generate_1D_grid"
           /\ (call.args.grid_shape <= 0 \/ call.args.grid_spacing <= 0))
           => ~call.ret.ok

\* C5: for positive grid_shape and grid_spacing and squeeze=False,
\* generate_3D_grid returns shape (L0, L1, L2, 3) with
\* grid[i0, i1, i2][k] = (i_k - (L_k - 1) / 2) * s_k: evenly spaced by s_k,
\* symmetric about 0, from -(L_k - 1) * s_k / 2 to +(L_k - 1) * s_k / 2, and
\* 0 on an axis of one point.
C5_CentredGrid ==
    (call.op = "generate_3D_grid" /\ ~call.args.squeeze
        /\ Positive(call.args.grid_shape) /\ Positive(call.args.grid_spacing)) =>
        LET L == call.args.grid_shape
            sp == call.args.grid_spacing
        IN  /\ call.ret.ok
            /\ call.ret.shape = <<L[1], L[2], L[3], 3>>
            /\ \A i0 \in 0..(L[1] - 1), i1 \in 0..(L[2] - 1), i2 \in 0..(L[3] - 1),
                  k \in 1..3 :
                   Elem(call.ret, <<i0, i1, i2, k - 1>>)
                       = Centred(<<i0, i1, i2>>[k], L[k], sp[k])

\* Reached: an unsqueezed grid with an axis of three points, an axis of one
\* point and an axis of two points, the spacings differing.
C5_Witness ==
    /\ call.op = "generate_3D_grid"
    /\ ~call.args.squeeze
    /\ call.args.grid_shape = <<3, 1, 2>>
    /\ call.args.grid_spacing = <<2, 1, 1>>
    /\ call.ret.ok
    /\ Elem(call.ret, <<0, 0, 1, 0>>) = -4
    /\ Elem(call.ret, <<0, 0, 1, 2>>) = 1

\* C6: for positive m and n, generate_2D_grid((m, n)) has shape (m, n, 3)
\* and generate_1D_grid(m) has shape (m, 3), also when m or n is 1.
C6_LogicalShape ==
    /\ (call.op = "generate_2D_grid"
           /\ Positive(call.args.grid_shape) /\ Positive(call.args.grid_spacing))
           => (call.ret.ok /\ call.ret.shape = call.args.grid_shape \o <<3>>)
    /\ (call.op = "generate_1D_grid"
           /\ call.args.grid_shape > 0 /\ call.args.grid_spacing > 0)
           => (call.ret.ok /\ call.ret.shape = <<call.args.grid_shape, 3>>)

\* C7: for a surface of grid shape (r, c) and thickness t,
\* sample_volume_around_surface returns shape (r, c, t) and its entry
\* [i, j, k] is the volume interpolated at point k of the normal line
\* (offset (k - (t - 1) / 2) * sampling_spacing along the third axis)
\* rotated by orientation i * c + j and translated by position i * c + j.
C7_SurfaceShell ==
    call.op = "sample_volume_around_surface" =>
        LET r == call.args.grid_shape[1]
            c == call.args.grid_shape[2]
            t == call.args.sampling_thickness
        IN  /\ call.ret.ok
            /\ call.ret.shape = <<r, c, t>>
            /\ \A i \in 0..(r - 1), j \in 0..(c - 1), k \in 0..(t - 1) :
                   Elem(call.ret, <<i, j, k>>)
                       = ValueAt(volume,
                             Placed(orientations[i * c + j + 1],
                                    <<0, 0, Centred(k, t, call.args.sampling_spacing)>>,
                                    Point(positions, i * c + j)))

\* Reached: a 2 x 2 surface sampled two points thick, the four poses
\* giving different samples.
C7_Witness ==
    /\ call.op = "sample_volume_around_surface"
    /\ call.args.grid_shape = <<2, 2>>
    /\ call.args.sampling_thickness = 2
    /\ call.ret.ok
    /\ Cardinality({call.ret.data[f] : f \in 1..Size(call.ret)}) > 4

\* C8: with a scalar sampling_spacing and a path object of B poses,
\* sample_volume_along_spline completes and returns B planes of the
\* sampling shape.
C8_ScalarSpacing ==
    call.op = "sample_volume_along_spline" =>
        /\ call.ret.ok
        /\ Size(call.ret) = positions.shape[1] * call.args.sampling_shape[1]
                               * call.args.sampling_shape[2]

\* C9: every call leaves the caller's volume, sampling grid, positions and
\* coordinate array as they were.
C9_InputsUnchanged ==
    [][/\ volume' = volume
       /\ sampling_grid' = sampling_grid
       /\ positions' = positions
       /\ coordinates' = coordinates]_vars

\* Reached: generate_sampling_coordinates has returned an array that
\* differs from the grid it was given.
C9_Witness ==
    /\ call.op = "generate_sampling_coordinates"
    /\ call.ret.ok
    /\ Size(sampling_grid) > 3
    /\ call.ret.data # sampling_grid.data

\* C10: sample_subvolumes on a grid of shape (m, n, p) and B poses returns
\* shape (B, n, p, m), and out[b, j, k, i] is the volume interpolated at
\* orientations[b] applied to grid[i, j, k], translated by positions[b].
C10_SubvolumeLayout ==
    (call.op = "sample_subvolumes" /\ Len(orientations) = positions.shape[1]) =>
        LET B == positions.shape[1]
            L == call.args.grid_shape
            sp == call.args.grid_spacing
        IN  /\ call.ret.ok
            /\ call.ret.shape = <<B, L[2], L[3], L[1]>>
            /\ \A b \in 0..(B - 1), i \in 0..(L[1] - 1), j \in 0..(L[2] - 1),
                  k \in 0..(L[3] - 1) :
                   Elem(call.ret, <<b, j, k, i>>)
                       = ValueAt(volume,
                             Placed(orientations[b + 1],
                                    <<Centred(i, L[1], sp[1]),
                                      Centred(j, L[2], sp[2]),
                                      Centred(k, L[3], sp[3])>>,
                                    Point(positions, b)))

\* Reached: three poses of a grid of shape (2, 1, 2), whose first and last
\* axes the result exchanges, the samples differing.
C10_Witness ==
    /\ call.op = "sample_subvolumes"
    /\ positions.shape[1] = 3
    /\ Len(orientations) = 3
    /\ call.args.grid_shape = <<2, 1, 2>>
    /\ call.ret.ok
    /\ Cardinality({call.ret.data[f] : f \in 1..Size(call.ret)}) > 4

====
